---------------------------- MODULE Spec2Model ----------------------------
(***************************************************************************)
(* Musolang: an interpreter whose instruction stream is the sequence of    *)
(* dominant frequencies of an audio file (src/musolang.py).                *)
(*                                                                         *)
(* The model covers main() from the decoding loop on: the list             *)
(* `frequencies` is the input, the decoder turns it into `actions`, and    *)
(* the execution loop resolves and executes one Action at a time against   *)
(* `symbol_table`.  Audio loading and the FFT are outside the model: they  *)
(* only produce `frequencies`.                                             *)
(*                                                                         *)
(* Values.  A Python value is a record [rep, num, den, text]:              *)
(*   rep = "int"    the Python int num (den = 1)                           *)
(*   rep = "float"  the np.float64 num/den, den > 0 and the fraction in    *)
(*                  lowest terms; den = 0 encodes inf (num = 1),           *)
(*                  -inf (num = -1) and nan (num = 0)                      *)
(*   rep = "str"    the text, a sequence of one-character strings          *)
(* Floating-point rounding and the sign of zero are not modelled.          *)
(***************************************************************************)
EXTENDS Integers, Sequences, FiniteSets, TLC

VARIABLES
    frequencies,   \* main: the classified frequencies (token values)
    i,             \* main: index of the decoding loop (1-based here)
    actions,       \* main: the decoded Actions
    k,             \* main: how many Actions the execution loop has taken
    action,        \* main: the loop variable `action`
    raw_arguments, \* history: action.arguments before parse_arguments replaced it
    symbol_table,  \* main: name -> Variable
    stdout,        \* the lines printed so far
    status,        \* "running", "ok" (exit status 0) or the kind of failure
    pc             \* "decode", "fetch", "execute", "exit"

vars ==
    <<frequencies, i, actions, k, action, raw_arguments, symbol_table, stdout, status, pc>>

---------------------------------------------------------------------------
(* Action frequencies and their required arguments                         *)

FREQ_IMMEDIATE == 50
FREQ_PRINT == 110
FREQ_ADD == 140
FREQ_SUB == 170
FREQ_MULT == 220
FREQ_DIV == 260
FREQ_CYCLE_TYPE == 310
FREQ_STR_DEF == 390
FREQ_INPUT == 500
FREQ_FUNC_DEF == 600
FREQ_FUNC_EXEC == 660
FREQ_VAR_INIT == 700

FREQ_ARGS(f) ==
    CASE f = FREQ_IMMEDIATE -> 2
      [] f = FREQ_PRINT -> 1
      [] f = FREQ_ADD -> 3
      [] f = FREQ_SUB -> 3
      [] f = FREQ_MULT -> 3
      [] f = FREQ_DIV -> 3
      [] f = FREQ_CYCLE_TYPE -> 1
      [] f = FREQ_STR_DEF -> 1
      [] f = FREQ_INPUT -> 1
      [] f = FREQ_FUNC_DEF -> 1
      [] f = FREQ_FUNC_EXEC -> 1
      [] f = FREQ_VAR_INIT -> 1

VariableType_NUMBER == "number"
VariableType_STRING == "string"
VariableType_FUNCTION == "funtion"

is_action_frequency(value) ==
    \/ value = FREQ_IMMEDIATE
    \/ value = FREQ_PRINT
    \/ value = FREQ_ADD
    \/ value = FREQ_SUB
    \/ value = FREQ_MULT
    \/ value = FREQ_DIV
    \/ value = FREQ_CYCLE_TYPE
    \/ value = FREQ_STR_DEF
    \/ value = FREQ_INPUT
    \/ value = FREQ_FUNC_DEF
    \/ value = FREQ_FUNC_EXEC
    \/ value = FREQ_VAR_INIT

is_encasing(value) ==
    \/ value = FREQ_STR_DEF
    \/ value = FREQ_FUNC_DEF

---------------------------------------------------------------------------
(* Python values                                                           *)

Abs(n) == IF n < 0 THEN -n ELSE n
Sign(n) == IF n < 0 THEN -1 ELSE IF n = 0 THEN 0 ELSE 1

RECURSIVE Gcd(_, _)
Gcd(a, b) == IF b = 0 THEN a ELSE Gcd(b, a % b)

PyInt(n) == [rep |-> "int", num |-> n, den |-> 1, text |-> <<>>]
PyStr(t) == [rep |-> "str", num |-> 0, den |-> 1, text |-> t]
Float64(n, d) ==
    IF d = 0
    THEN [rep |-> "float", num |-> Sign(n), den |-> 0, text |-> <<>>]
    ELSE LET g == Gcd(Abs(n), Abs(d))
             s == Sign(d)
         IN [rep |-> "float", num |-> (s * n) \div g, den |-> (s * d) \div g,
             text |-> <<>>]

IsNumeric(v) == v.rep \in {"int", "float"}
IsNan(v) == v.den = 0 /\ v.num = 0
IsInf(v) == v.den = 0 /\ v.num # 0

\* The four arithmetic operators on two numeric values, as np.float64 rationals.
FloatAdd(a, b) ==
    IF IsNan(a) \/ IsNan(b) THEN Float64(0, 0)
    ELSE IF IsInf(a) /\ IsInf(b)
         THEN (IF a.num = b.num THEN Float64(a.num, 0) ELSE Float64(0, 0))
    ELSE IF IsInf(a) THEN Float64(a.num, 0)
    ELSE IF IsInf(b) THEN Float64(b.num, 0)
    ELSE Float64(a.num * b.den + b.num * a.den, a.den * b.den)

FloatNeg(a) == [a EXCEPT !.rep = "float", !.num = -a.num]

FloatMul(a, b) ==
    IF IsNan(a) \/ IsNan(b) THEN Float64(0, 0)
    ELSE IF IsInf(a) \/ IsInf(b) THEN Float64(Sign(a.num) * Sign(b.num), 0)
    ELSE Float64(a.num * b.num, a.den * b.den)

FloatDiv(a, b) ==
    IF IsNan(a) \/ IsNan(b) THEN Float64(0, 0)
    ELSE IF IsInf(a) /\ IsInf(b) THEN Float64(0, 0)
    ELSE IF IsInf(a) THEN Float64(a.num * (IF b.num < 0 THEN -1 ELSE 1), 0)
    ELSE IF IsInf(b) THEN Float64(0, 1)
    ELSE Float64(a.num * b.den, a.den * b.num)

BothInt(a, b) == a.rep = "int" /\ b.rep = "int"

\* What a binary operator of Python yields: [err, value], err "none" or the
\* exception raised.
Raise(e) == [err |-> e, value |-> PyInt(0)]
Return(v) == [err |-> "none", value |-> v]

\* left + right
PyAdd(a, b) ==
    IF a.rep = "str" /\ b.rep = "str" THEN Return(PyStr(a.text \o b.text))
    ELSE IF a.rep = "str" \/ b.rep = "str" THEN Raise("TypeError")
    ELSE IF BothInt(a, b) THEN Return(PyInt(a.num + b.num))
    ELSE Return(FloatAdd(a, b))

\* left - right
PySub(a, b) ==
    IF a.rep = "str" \/ b.rep = "str" THEN Raise("TypeError")
    ELSE IF BothInt(a, b) THEN Return(PyInt(a.num - b.num))
    ELSE Return(FloatAdd(a, FloatNeg(b)))

RECURSIVE Repeat(_, _)
Repeat(t, n) == IF n <= 0 THEN <<>> ELSE t \o Repeat(t, n - 1)

\* left * right (a str times an int repeats the str)
PyMul(a, b) ==
    IF a.rep = "str" /\ b.rep = "int" THEN Return(PyStr(Repeat(a.text, b.num)))
    ELSE IF a.rep = "int" /\ b.rep = "str" THEN Return(PyStr(Repeat(b.text, a.num)))
    ELSE IF a.rep = "str" \/ b.rep = "str" THEN Raise("TypeError")
    ELSE IF BothInt(a, b) THEN Return(PyInt(a.num * b.num))
    ELSE Return(FloatMul(a, b))

\* left / right (int / int raises on a zero divisor, np.float64 does not)
PyDiv(a, b) ==
    IF a.rep = "str" \/ b.rep = "str" THEN Raise("TypeError")
    ELSE IF BothInt(a, b)
         THEN (IF b.num = 0 THEN Raise("ZeroDivisionError")
               ELSE Return(Float64(a.num, b.num)))
    ELSE Return(FloatDiv(a, b))

\* str(value): the decimal text of a number, a str as it is.
Digit(d) == <<"0", "1", "2", "3", "4", "5", "6", "7", "8", "9">>[d + 1]

RECURSIVE NatText(_)
NatText(n) == IF n < 10 THEN <<Digit(n)>> ELSE NatText(n \div 10) \o <<Digit(n % 10)>>

IntText(n) == IF n < 0 THEN <<"-">> \o NatText(-n) ELSE NatText(n)

RECURSIVE FracText(_, _, _)
FracText(r, d, left) ==
    IF r = 0 \/ left = 0 THEN <<>>
    ELSE <<Digit((10 * r) \div d)>> \o FracText((10 * r) % d, d, left - 1)

FloatText(v) ==
    IF IsNan(v) THEN <<"n", "a", "n">>
    ELSE IF IsInf(v) THEN (IF v.num < 0 THEN <<"-">> ELSE <<>>) \o <<"i", "n", "f">>
    ELSE LET a == Abs(v.num)
             whole == a \div v.den
             rest == a % v.den
         IN (IF v.num < 0 THEN <<"-">> ELSE <<>>) \o NatText(whole) \o <<".">>
            \o (IF rest = 0 THEN <<"0">> ELSE FracText(rest, v.den, 17))

str(v) ==
    CASE v.rep = "str" -> v.text
      [] v.rep = "int" -> IntText(v.num)
      [] v.rep = "float" -> FloatText(v)

Variable(var_type, value) == [type |-> var_type, value |-> value]

\* Variable.is_valid, with type(value) == np.float64 as written
Variable_is_valid(var) ==
    \/ var.type = VariableType_NUMBER /\ var.value.rep = "float"
    \/ var.type = VariableType_STRING /\ var.value.rep = "str"

---------------------------------------------------------------------------
(* Decoder: main, the loop that parses the frequencies as actions          *)

Action(frequency, arguments, req_arguments) ==
    [frequency |-> frequency, arguments |-> arguments, req_arguments |-> req_arguments]

is_valid(a) == Len(a.arguments) >= a.req_arguments

\* Variant of CollectArguments: an action frequency ends the arguments of an
\* encasing action too.
RECURSIVE CollectArguments_BreakOnAction(_, _, _, _)
CollectArguments_BreakOnAction(freqs, freq, j, args) ==
    IF j > Len(freqs) THEN [args |-> args, i |-> j]
    ELSE IF is_action_frequency(freqs[j]) THEN [args |-> args, i |-> j]
    ELSE CollectArguments_BreakOnAction(freqs, freq, j + 1, Append(args, freqs[j]))

\* Variant of CollectArguments: the action frequency that ends the arguments
\* of a non-encasing action is consumed with them.
RECURSIVE CollectArguments_ConsumeNext(_, _, _, _)
CollectArguments_ConsumeNext(freqs, freq, j, args) ==
    IF j > Len(freqs) THEN [args |-> args, i |-> j]
    ELSE IF is_action_frequency(freqs[j]) /\ ~is_encasing(freq)
         THEN [args |-> args, i |-> j + 1]
    ELSE IF freq = freqs[j] /\ is_encasing(freq)
         THEN [args |-> args, i |-> j + 1]
    ELSE CollectArguments_ConsumeNext(freqs, freq, j + 1, Append(args, freqs[j]))

\* Variant of CollectArguments: the token after the opener is taken as the
\* first argument before any test.
RECURSIVE CollectArguments_TakeFirst(_, _, _, _)
CollectArguments_TakeFirst(freqs, freq, j, args) ==
    IF j > Len(freqs) THEN [args |-> args, i |-> j]
    ELSE IF args # <<>> /\ is_action_frequency(freqs[j]) /\ ~is_encasing(freq)
         THEN [args |-> args, i |-> j]
    ELSE IF freq = freqs[j] /\ is_encasing(freq)
         THEN [args |-> args, i |-> j + 1]
    ELSE CollectArguments_TakeFirst(freqs, freq, j + 1, Append(args, freqs[j]))

\* The inner loop: collects the arguments of the action opened by freq, from
\* index j on.  Yields the arguments and the index the outer loop resumes at.
RECURSIVE CollectArguments(_, _, _, _)
CollectArguments(freqs, freq, j, args) ==
    IF j > Len(freqs) THEN [args |-> args, i |-> j]
    ELSE IF is_action_frequency(freqs[j]) /\ ~is_encasing(freq)
         THEN [args |-> args, i |-> j]
    ELSE IF freq = freqs[j] /\ is_encasing(freq)
         THEN [args |-> args, i |-> j + 1]
    ELSE CollectArguments(freqs, freq, j + 1, Append(args, freqs[j]))

\* Variant of DecodeToken: after an action the outer loop resumes at the token
\* right after the opener.
DecodeToken_Rescan ==
    /\ pc = "decode"
    /\ i <= Len(frequencies)
    /\ LET freq == frequencies[i]
           r == CollectArguments(frequencies, freq, i + 1, <<>>)
       IN /\ actions' = IF is_action_frequency(freq)
                        THEN Append(actions, Action(freq, r.args, FREQ_ARGS(freq)))
                        ELSE actions
          /\ i' = i + 1
    /\ UNCHANGED <<frequencies, k, action, raw_arguments, symbol_table, stdout, status, pc>>

\* One iteration of the outer loop.
DecodeToken ==
    /\ pc = "decode"
    /\ i <= Len(frequencies)
    /\ LET freq == frequencies[i]
           r == CollectArguments(frequencies, freq, i + 1, <<>>)
       IN IF is_action_frequency(freq)
          THEN /\ actions' = Append(actions, Action(freq, r.args, FREQ_ARGS(freq)))
               /\ i' = r.i
          ELSE /\ actions' = actions
               /\ i' = i + 1
    /\ UNCHANGED <<frequencies, k, action, raw_arguments, symbol_table, stdout, status, pc>>

\* The outer loop ends; the symbol table is created empty.
StartExecution ==
    /\ pc = "decode"
    /\ i > Len(frequencies)
    /\ symbol_table' = <<>>
    /\ pc' = "fetch"
    /\ UNCHANGED <<frequencies, i, actions, k, action, raw_arguments, stdout, status>>

---------------------------------------------------------------------------
(* Resolver: Action.parse_arguments                                        *)

RECURSIVE ParseLoop(_, _, _, _, _)
ParseLoop(a, st, ignore_undefined, j, new_args) ==
    IF j > Len(a.arguments) THEN new_args
    ELSE IF Len(new_args) >= a.req_arguments /\ ~is_encasing(a.frequency)
         THEN new_args
    ELSE IF a.arguments[j] \notin DOMAIN st /\ ignore_undefined
         THEN ParseLoop(a, st, ignore_undefined, j + 1, new_args)
    ELSE ParseLoop(a, st, ignore_undefined, j + 1, Append(new_args, a.arguments[j]))

\* Variant of parse_arguments: cuts the raw arguments to the required ones
\* first and drops the undefined ones after.
parse_arguments_CutFirst(a, st, ignore_undefined) ==
    LET n == IF Len(a.arguments) < a.req_arguments \/ is_encasing(a.frequency)
             THEN Len(a.arguments) ELSE a.req_arguments
        cut == [a EXCEPT !.arguments = SubSeq(a.arguments, 1, n)]
    IN [a EXCEPT !.arguments = ParseLoop(cut, st, ignore_undefined, 1, <<>>)]

parse_arguments(a, st, ignore_undefined) ==
    [a EXCEPT !.arguments = ParseLoop(a, st, ignore_undefined, 1, <<>>)]

\* Variant of ignore_undefined_of: the policy of line 354 without its
\* exceptions for VAR_INIT and IMMEDIATE.
ignore_undefined_of_NoExceptions(a) ==
    ~is_encasing(a.frequency)

ignore_undefined_of(a) ==
    /\ ~is_encasing(a.frequency)
    /\ a.frequency # FREQ_VAR_INIT
    /\ a.frequency # FREQ_IMMEDIATE

---------------------------------------------------------------------------
(* Engine: the handlers.  Each yields the symbol table it leaves, the      *)
(* lines it prints and err: "none", the diagnostic it exits with, or the   *)
(* Python exception it lets escape.                                        *)

Done(st) == [symbol_table |-> st, out |-> <<>>, err |-> "none"]
Printed(st, line) == [symbol_table |-> st, out |-> <<line>>, err |-> "none"]
Exit1(st, kind) == [symbol_table |-> st, out |-> <<>>, err |-> kind]

Store(st, name, value) == [st EXCEPT ![name].value = value]

\* Variant of execute_immediate: the second argument is looked up in the
\* symbol table when it names a variable.
execute_immediate_Lookup(a, st) ==
    LET arg_store == a.arguments[1]
        arg_val == a.arguments[2]
    IN IF arg_store \notin DOMAIN st THEN Exit1(st, "UndefinedVariable")
       ELSE IF st[arg_store].type # VariableType_NUMBER THEN Exit1(st, "TypeMismatch")
       ELSE IF arg_val \in DOMAIN st THEN Done(Store(st, arg_store, st[arg_val].value))
       ELSE Done(Store(st, arg_store, Float64(arg_val, 1)))

\* Variant of execute_immediate: a target of another type is retagged as a
\* Number and assigned.
execute_immediate_Retag(a, st) ==
    LET arg_store == a.arguments[1]
        arg_val == a.arguments[2]
    IN IF arg_store \notin DOMAIN st THEN Exit1(st, "UndefinedVariable")
       ELSE Done([st EXCEPT ![arg_store] =
                     Variable(VariableType_NUMBER, Float64(arg_val, 1))])

execute_immediate(a, st) ==
    LET arg_store == a.arguments[1]
        arg_val == a.arguments[2]
    IN IF arg_store \notin DOMAIN st THEN Exit1(st, "UndefinedVariable")
       ELSE IF st[arg_store].type # VariableType_NUMBER THEN Exit1(st, "TypeMismatch")
       ELSE Done(Store(st, arg_store, Float64(arg_val, 1)))

execute_print(a, st) ==
    LET arg0 == a.arguments[1]
    IN IF st[arg0].type = VariableType_FUNCTION THEN Exit1(st, "TypeMismatch")
       ELSE Printed(st, str(st[arg0].value))

\* dst = left <op> right, where the operator may raise
Assign(st, arg_store, r) ==
    IF r.err # "none" THEN Exit1(st, r.err) ELSE Done(Store(st, arg_store, r.value))

\* Variant of execute_add: the sum is stored in the left operand.
execute_add_StoreLeft(a, st) ==
    LET arg_store == a.arguments[1]
        arg_left == a.arguments[2]
        arg_right == a.arguments[3]
    IN IF \/ st[arg_store].type # st[arg_left].type
          \/ st[arg_store].type # st[arg_right].type
       THEN Exit1(st, "TypeMismatch")
       ELSE IF \/ st[arg_store].type = VariableType_FUNCTION
               \/ st[arg_left].type = VariableType_FUNCTION
               \/ st[arg_right].type = VariableType_FUNCTION
       THEN Exit1(st, "TypeMismatch")
       ELSE Assign(st, arg_left, PyAdd(st[arg_left].value, st[arg_right].value))

execute_add(a, st) ==
    LET arg_store == a.arguments[1]
        arg_left == a.arguments[2]
        arg_right == a.arguments[3]
    IN IF \/ st[arg_store].type # st[arg_left].type
          \/ st[arg_store].type # st[arg_right].type
       THEN Exit1(st, "TypeMismatch")
       ELSE IF \/ st[arg_store].type = VariableType_FUNCTION
               \/ st[arg_left].type = VariableType_FUNCTION
               \/ st[arg_right].type = VariableType_FUNCTION
       THEN Exit1(st, "TypeMismatch")
       ELSE Assign(st, arg_store, PyAdd(st[arg_left].value, st[arg_right].value))

AllNumber(a, st) ==
    /\ st[a.arguments[1]].type = VariableType_NUMBER
    /\ st[a.arguments[2]].type = VariableType_NUMBER
    /\ st[a.arguments[3]].type = VariableType_NUMBER

execute_sub(a, st) ==
    IF ~AllNumber(a, st) THEN Exit1(st, "TypeMismatch")
    ELSE Assign(st, a.arguments[1],
                PySub(st[a.arguments[2]].value, st[a.arguments[3]].value))

execute_mult(a, st) ==
    IF ~AllNumber(a, st) THEN Exit1(st, "TypeMismatch")
    ELSE Assign(st, a.arguments[1],
                PyMul(st[a.arguments[2]].value, st[a.arguments[3]].value))

\* Variant of execute_div: the guard tests the value stored in the right
\* operand, not its name.
execute_div_StoredValue(a, st) ==
    LET arg_right == a.arguments[3]
    IN IF ~AllNumber(a, st) THEN Exit1(st, "TypeMismatch")
       ELSE IF IsNumeric(st[arg_right].value) /\ st[arg_right].value.num = 0
               /\ st[arg_right].value.den # 0
       THEN Exit1(st, "DivideByZero")
       ELSE Assign(st, a.arguments[1],
                   PyDiv(st[a.arguments[2]].value, st[arg_right].value))

execute_div(a, st) ==
    LET arg_right == a.arguments[3]
    IN IF ~AllNumber(a, st) THEN Exit1(st, "TypeMismatch")
       ELSE IF arg_right = 0 THEN Exit1(st, "DivideByZero")
       ELSE Assign(st, a.arguments[1],
                   PyDiv(st[a.arguments[2]].value, st[arg_right].value))

\* The String -> Number branch assigns the type, then str(value) inside the
\* try: str() raises no ValueError, so the except branch is never taken.
execute_cycle_type(a, st) ==
    LET arg0 == a.arguments[1]
        text == Return(PyStr(str(st[arg0].value)))
    IN CASE st[arg0].type = VariableType_NUMBER ->
              Done([st EXCEPT ![arg0] = Variable(VariableType_STRING, text.value)])
         [] st[arg0].type = VariableType_STRING ->
              IF text.err = "ValueError"
              THEN Exit1([st EXCEPT ![arg0].type = VariableType_NUMBER],
                         "UnparsableConversion")
              ELSE Done([st EXCEPT ![arg0] = Variable(VariableType_NUMBER, text.value)])
         [] OTHER -> Exit1(st, "TypeMismatch")

\* Variant of execute_str_def: the definition declares the name given by its
\* first argument as a String variable.
execute_str_def_Declare(a, st) ==
    IF a.arguments = <<>> \/ a.arguments[1] \in DOMAIN st THEN Done(st)
    ELSE Done([n \in DOMAIN st \cup {a.arguments[1]} |->
                 IF n = a.arguments[1]
                 THEN Variable(VariableType_STRING, PyStr(<<>>))
                 ELSE st[n]])

execute_str_def(a, st) == Done(st)

execute_input(a, st, line) ==
    LET arg0 == a.arguments[1]
    IN IF st[arg0].type # VariableType_STRING THEN Exit1(st, "TypeMismatch")
       ELSE Done(Store(st, arg0, PyStr(line)))

execute_func_def(a, st) == Done(st)

execute_func_exec(a, st) == Done(st)

\* Variant of execute_var_init: the variable is assigned before the test
\* for a second definition.
execute_var_init_AssignFirst(a, st) ==
    LET arg0 == a.arguments[1]
        fresh == [n \in DOMAIN st \cup {arg0} |->
                    IF n = arg0 THEN Variable(VariableType_NUMBER, PyInt(0)) ELSE st[n]]
    IN IF arg0 \in DOMAIN st THEN Exit1(fresh, "DuplicateDeclaration")
       ELSE Done(fresh)

execute_var_init(a, st) ==
    LET arg0 == a.arguments[1]
    IN IF arg0 \in DOMAIN st THEN Exit1(st, "DuplicateDeclaration")
       ELSE Done((arg0 :> Variable(VariableType_NUMBER, PyInt(0))) @@ st)

\* main: the if/elif chain on action.frequency.value
Dispatch(a, st, line) ==
    CASE a.frequency = FREQ_IMMEDIATE -> execute_immediate(a, st)
      [] a.frequency = FREQ_PRINT -> execute_print(a, st)
      [] a.frequency = FREQ_ADD -> execute_add(a, st)
      [] a.frequency = FREQ_SUB -> execute_sub(a, st)
      [] a.frequency = FREQ_MULT -> execute_mult(a, st)
      [] a.frequency = FREQ_DIV -> execute_div(a, st)
      [] a.frequency = FREQ_CYCLE_TYPE -> execute_cycle_type(a, st)
      [] a.frequency = FREQ_STR_DEF -> execute_str_def(a, st)
      [] a.frequency = FREQ_INPUT -> execute_input(a, st, line)
      [] a.frequency = FREQ_FUNC_DEF -> execute_func_def(a, st)
      [] a.frequency = FREQ_FUNC_EXEC -> execute_func_exec(a, st)
      [] a.frequency = FREQ_VAR_INIT -> execute_var_init(a, st)

\* The resolved action: what parse_arguments leaves in `action`
Resolved(a, st) == parse_arguments(a, st, ignore_undefined_of(a))

\* Variant of RunAction: an invalid action is reported and skipped.
RunAction_Continue(a, st, line) ==
    IF ~is_valid(Resolved(a, st)) THEN Done(st)
    ELSE Dispatch(Resolved(a, st), st, line)

\* The body of the execution loop for one action
RunAction(a, st, line) ==
    IF ~is_valid(Resolved(a, st)) THEN Exit1(st, "ArityError")
    ELSE Dispatch(Resolved(a, st), st, line)

\* Exit status of the process: exit(1) for a diagnostic, 1 as well for an
\* uncaught exception, 0 when main returns.
ExitStatus(s) == IF s = "ok" THEN 0 ELSE 1

---------------------------------------------------------------------------
(* Bounds of the inputs                                                    *)

MaxLen == 5
MaxInstr == 4
\* The most arguments an action frequency requires
MaxArity == 3

SeqsUpTo(S, n) == UNION {[1..m -> S] : m \in 0..n}

\* Token values that are no action frequency, used as names and literals
Names == {0, 10}

\* The tokens of the streams Spec decodes and runs
StreamTokens ==
    Names \cup {FREQ_IMMEDIATE, FREQ_PRINT, FREQ_STR_DEF, FREQ_FUNC_DEF, FREQ_VAR_INIT}

\* Lines standard input may hold: "hi", "7" and the empty line
InputLines == {<<"h", "i">>, <<"7">>, <<>>}

Opcodes ==
    {FREQ_IMMEDIATE, FREQ_PRINT, FREQ_ADD, FREQ_SUB, FREQ_MULT, FREQ_DIV,
     FREQ_CYCLE_TYPE, FREQ_STR_DEF, FREQ_INPUT, FREQ_FUNC_DEF, FREQ_FUNC_EXEC,
     FREQ_VAR_INIT}

\* Actions the decoder can emit whose arguments are names: up to one more
\* than any action frequency requires
DecodedActions ==
    {Action(f, args, FREQ_ARGS(f)) : f \in Opcodes, args \in SeqsUpTo(Names, MaxArity + 1)}

NoAction == Action(0, <<>>, 0)

---------------------------------------------------------------------------
(* Execution loop: main, `for action in actions`                           *)

FetchAction ==
    /\ pc = "fetch"
    /\ k < Len(actions)
    /\ k' = k + 1
    /\ action' = actions[k + 1]
    /\ raw_arguments' = actions[k + 1].arguments
    /\ pc' = "execute"
    /\ UNCHANGED <<frequencies, i, actions, symbol_table, stdout, status>>

\* Variant of ExecuteAction: a failure is reported and the loop goes on.
ExecuteAction_NoExit ==
    /\ pc = "execute"
    /\ \E line \in InputLines :
         LET r == RunAction(action, symbol_table, line)
         IN /\ action' = Resolved(action, symbol_table)
            /\ symbol_table' = r.symbol_table
            /\ stdout' = stdout \o r.out
            /\ status' = IF r.err = "none" THEN status ELSE r.err
            /\ pc' = "fetch"
    /\ UNCHANGED <<frequencies, i, actions, k, raw_arguments>>

ExecuteAction ==
    /\ pc = "execute"
    /\ \E line \in InputLines :
         LET r == RunAction(action, symbol_table, line)
         IN /\ action' = Resolved(action, symbol_table)
            /\ symbol_table' = r.symbol_table
            /\ stdout' = stdout \o r.out
            /\ status' = IF r.err = "none" THEN status ELSE r.err
            /\ pc' = IF r.err = "none" THEN "fetch" ELSE "exit"
    /\ UNCHANGED <<frequencies, i, actions, k, raw_arguments>>

\* The loop is exhausted and main returns
Return0 ==
    /\ pc = "fetch"
    /\ k = Len(actions)
    /\ status' = "ok"
    /\ pc' = "exit"
    /\ UNCHANGED <<frequencies, i, actions, k, action, raw_arguments, symbol_table, stdout>>

Started(streams) ==
    /\ frequencies \in streams
    /\ i = 1
    /\ actions = <<>>
    /\ k = 0
    /\ action = NoAction
    /\ raw_arguments = <<>>
    /\ symbol_table = <<>>
    /\ stdout = <<>>
    /\ status = "running"
    /\ pc = "decode"

Init == Started(SeqsUpTo(StreamTokens, MaxLen))

Next ==
    \/ DecodeToken
    \/ StartExecution
    \/ FetchAction
    \/ ExecuteAction
    \/ Return0

Spec == Init /\ [][Next]_vars

---------------------------------------------------------------------------
(* The Resolver and Engine on their own: the execution loop driven by any  *)
(* list of at most MaxInstr decoded Actions, taken one at a time.          *)

TakeAction ==
    /\ pc = "fetch"
    /\ k < MaxInstr
    /\ \E a \in DecodedActions : action' = a /\ raw_arguments' = a.arguments
    /\ k' = k + 1
    /\ pc' = "execute"
    /\ UNCHANGED <<frequencies, i, actions, symbol_table, stdout, status>>

EndOfActions ==
    /\ pc = "fetch"
    /\ status' = "ok"
    /\ pc' = "exit"
    /\ UNCHANGED <<frequencies, i, actions, k, action, raw_arguments, symbol_table, stdout>>

InitEngine ==
    /\ frequencies = <<>>
    /\ i = 1
    /\ actions = <<>>
    /\ k = 0
    /\ action = NoAction
    /\ raw_arguments = <<>>
    /\ symbol_table = <<>>
    /\ stdout = <<>>
    /\ status = "running"
    /\ pc = "fetch"

NextEngine ==
    \/ TakeAction
    \/ ExecuteAction
    \/ EndOfActions

SpecEngine == InitEngine /\ [][NextEngine]_vars

---------------------------------------------------------------------------
(* The whole program on the streams two properties name                    *)

\* Token values that are no action frequency, as names and literals
SampleValues == {0, 10, 42, 55}

RoundTripStream(x, v) ==
    <<FREQ_VAR_INIT, x, FREQ_IMMEDIATE, x, v, FREQ_PRINT, x>>

InitRoundTrip == Started({RoundTripStream(x, v) : x \in SampleValues, v \in SampleValues})

SpecRoundTrip == InitRoundTrip /\ [][Next]_vars

TypeCycleStream(x, v) ==
    <<FREQ_VAR_INIT, x, FREQ_IMMEDIATE, x, v, FREQ_CYCLE_TYPE, x, FREQ_CYCLE_TYPE, x>>

InitTypeCycle == Started({TypeCycleStream(x, v) : x \in SampleValues, v \in SampleValues})

SpecTypeCycle == InitTypeCycle /\ [][Next]_vars

---------------------------------------------------------------------------
(* Properties                                                              *)

FirstN(s, n) == SubSeq(s, 1, IF Len(s) < n THEN Len(s) ELSE n)

HasClose(freqs, p) == \E c \in (p + 1)..Len(freqs) : freqs[c] = freqs[p]

FirstClose(freqs, p) ==
    CHOOSE c \in (p + 1)..Len(freqs) :
        /\ freqs[c] = freqs[p]
        /\ \A d \in (p + 1)..(c - 1) : freqs[d] # freqs[p]

\* C1: when the decoder stands on an encasing opcode E (390 or 600) that
\* occurs again later, it emits one Action with opcode E whose arguments are
\* exactly the tokens between E and its first recurrence, in order, whatever
\* their values, and resumes at the token after that recurrence.
C1_BracketMatching ==
    [][(/\ pc = "decode"
        /\ i <= Len(frequencies)
        /\ frequencies[i] \in {FREQ_STR_DEF, FREQ_FUNC_DEF}
        /\ HasClose(frequencies, i))
       => LET c == FirstClose(frequencies, i)
          IN /\ actions' = Append(actions,
                                  [frequency |-> frequencies[i],
                                   arguments |-> SubSeq(frequencies, i + 1, c - 1),
                                   req_arguments |-> 1])
             /\ i' = c + 1]_vars

\* An encasing action holding another opcode has been decoded, its closing
\* token consumed, and a rest remains to decode.
C1_Witness ==
    /\ pc = "decode"
    /\ Len(actions) = 1
    /\ frequencies[1] \in {FREQ_STR_DEF, FREQ_FUNC_DEF}
    /\ actions[1].frequency = frequencies[1]
    /\ \E j \in 1..Len(actions[1].arguments) :
           actions[1].arguments[j] \in Opcodes
    /\ i = Len(actions[1].arguments) + 3
    /\ frequencies[i - 1] = frequencies[1]
    /\ i <= Len(frequencies)

\* The opcodes whose undefined arguments are dropped: all but VAR_INIT,
\* IMMEDIATE and the two encasing ones.
IgnoresUndefined(f) ==
    f \in {FREQ_PRINT, FREQ_ADD, FREQ_SUB, FREQ_MULT, FREQ_DIV, FREQ_CYCLE_TYPE,
           FREQ_INPUT, FREQ_FUNC_EXEC}

Survivors(f, args, st) ==
    LET Keep(t) == ~IgnoresUndefined(f) \/ t \in DOMAIN st
    IN SelectSeq(args, Keep)

\* C2: resolving a non-encasing action with more raw arguments than its
\* opcode requires leaves exactly the first k arguments that survive the
\* undefined-name filter (every raw token for VAR_INIT and IMMEDIATE), in
\* their order.
C2_Truncation ==
    [][(/\ pc = "execute"
        /\ action.frequency \notin {FREQ_STR_DEF, FREQ_FUNC_DEF}
        /\ Len(action.arguments) > FREQ_ARGS(action.frequency))
       => action'.arguments =
              FirstN(Survivors(action.frequency, action.arguments, symbol_table),
                     FREQ_ARGS(action.frequency))]_vars

\* An ADD was resolved from more than three raw arguments, the first of them
\* undefined and dropped, a later one cut off.
C2_Witness ==
    /\ pc = "fetch"
    /\ action.frequency = FREQ_ADD
    /\ Len(raw_arguments) > 3
    /\ raw_arguments[1] \notin DOMAIN symbol_table
    /\ Len(action.arguments) = 3
    /\ action.arguments # SubSeq(raw_arguments, 1, 3)

\* C3: an action left with fewer arguments than required aborts the run with
\* ArityError, without any effect on the symbol table or the output, and
\* after the abort nothing is resolved or executed any more.
C3_ArityFatal ==
    [][/\ (pc = "execute" /\ Len(action'.arguments) < FREQ_ARGS(action.frequency))
          => /\ status' = "ArityError"
             /\ pc' = "exit"
             /\ symbol_table' = symbol_table
             /\ stdout' = stdout
       /\ status = "ArityError" => UNCHANGED vars]_vars

\* A run aborted with ArityError after earlier actions had effects, the
\* action having lost raw arguments to the undefined-name filter.
C3_Witness ==
    /\ status = "ArityError"
    /\ pc = "exit"
    /\ Len(action.arguments) < action.req_arguments
    /\ Len(raw_arguments) >= action.req_arguments
    /\ DOMAIN symbol_table # {}
    /\ k > 1

\* C4: the stream [700, x, 50, x, v, 110, x] runs to exit status 0; VAR_INIT
\* declares x as Number 0, IMMEDIATE stores the literal v in x, and PRINT
\* writes the one line that renders v.
C4_RoundTrip ==
    LET x == frequencies[2]
        v == frequencies[5]
    IN /\ status \in {"running", "ok"}
       /\ (pc = "fetch" /\ k = 1)
          => symbol_table = (x :> Variable(VariableType_NUMBER, PyInt(0)))
       /\ (pc = "fetch" /\ k = 2)
          => symbol_table = (x :> Variable(VariableType_NUMBER, Float64(v, 1)))
       /\ pc # "exit" => (stdout = <<>> \/ k = 3)
       /\ pc = "exit"
          => /\ ExitStatus(status) = 0
             /\ k = 3
             /\ stdout = <<IntText(v) \o <<".", "0">>>>
             /\ symbol_table = (x :> Variable(VariableType_NUMBER, Float64(v, 1)))

\* The run of [700, 10, 50, 10, 42, 110, 10] has ended, having printed 42.0.
C4_Witness ==
    /\ pc = "exit"
    /\ frequencies = RoundTripStream(10, 42)
    /\ stdout = << <<"4", "2", ".", "0">> >>

\* C5: a resolved DIV whose three operands are Number-typed and whose right
\* operand is the name 0 aborts with DivideByZero and leaves every variable
\* as it was.
C5_DivideByZeroGuard ==
    [][(/\ pc = "execute"
        /\ action.frequency = FREQ_DIV
        /\ Len(action'.arguments) >= 3
        /\ action'.arguments[3] = 0
        /\ \A n \in 1..3 :
               symbol_table[action'.arguments[n]].type = VariableType_NUMBER)
       => /\ status' = "DivideByZero"
          /\ pc' = "exit"
          /\ symbol_table' = symbol_table]_vars

\* A DIV on the name 0 was refused although the variable 0 holds a value
\* other than zero.
C5_Witness ==
    /\ status = "DivideByZero"
    /\ action.frequency = FREQ_DIV
    /\ action.arguments[3] = 0
    /\ symbol_table[0].value # PyInt(0)
    /\ symbol_table[0].value # Float64(0, 1)

\* Python's float(text) on the texts of the model: an optional sign, then
\* inf, nan or digits with at most one point and a digit on either side of it.
Digits == {"0", "1", "2", "3", "4", "5", "6", "7", "8", "9"}

DigitValue(c) == CHOOSE d \in 0..9 : Digit(d) = c

Unsigned(t) == IF t # <<>> /\ Head(t) \in {"-", "+"} THEN Tail(t) ELSE t

PointAt(t) == IF \E p \in 1..Len(t) : t[p] = "."
              THEN CHOOSE p \in 1..Len(t) : t[p] = "." ELSE Len(t) + 1

Parseable(t) ==
    LET u == Unsigned(t)
        p == PointAt(u)
    IN \/ u \in {<<"i", "n", "f">>, <<"n", "a", "n">>}
       \/ /\ Len(u) > (IF p <= Len(u) THEN 1 ELSE 0)
          /\ \A q \in 1..Len(u) : q # p => u[q] \in Digits

RECURSIVE DigitsValue(_)
DigitsValue(t) ==
    IF t = <<>> THEN 0
    ELSE 10 * DigitsValue(SubSeq(t, 1, Len(t) - 1)) + DigitValue(t[Len(t)])

RECURSIVE Pow10(_)
Pow10(n) == IF n = 0 THEN 1 ELSE 10 * Pow10(n - 1)

ParseFloat(t) ==
    LET u == Unsigned(t)
        p == PointAt(u)
        sign == IF t # <<>> /\ Head(t) = "-" THEN -1 ELSE 1
        whole == SubSeq(u, 1, p - 1)
        frac == SubSeq(u, p + 1, Len(u))
    IN IF u = <<"i", "n", "f">> THEN Float64(sign, 0)
       ELSE IF u = <<"n", "a", "n">> THEN Float64(0, 0)
       ELSE Float64(sign * (DigitsValue(whole) * Pow10(Len(frac)) + DigitsValue(frac)),
                    Pow10(Len(frac)))

\* Numeric equality of two Python numbers
NumEq(a, b) ==
    /\ IsNumeric(a) /\ IsNumeric(b)
    /\ ~IsNan(a) /\ ~IsNan(b)
    /\ a.num * b.den = b.num * a.den
    /\ (a.den = 0) = (b.den = 0)

\* C6: a Number variable holding v, whose rendering parses back to v, is
\* after two CYCLE_TYPE in succession a Number variable holding a numeric
\* value equal to v.
C6_TypeCycleRoundTrip ==
    LET x == frequencies[2]
        v == Float64(frequencies[5], 1)
    IN (pc = "exit" /\ Parseable(str(v)) /\ ParseFloat(str(v)) = v)
       => /\ status = "ok"
          /\ symbol_table[x].type = VariableType_NUMBER
          /\ NumEq(symbol_table[x].value, v)

\* C7: a VAR_INIT naming a key of the symbol table aborts with
\* DuplicateDeclaration and leaves the symbol table, the existing entry
\* included, as it was.
C7_DuplicateDeclaration ==
    [][(/\ pc = "execute"
        /\ action.frequency = FREQ_VAR_INIT
        /\ Len(action'.arguments) >= 1
        /\ action'.arguments[1] \in DOMAIN symbol_table)
       => /\ status' = "DuplicateDeclaration"
          /\ pc' = "exit"
          /\ symbol_table' = symbol_table]_vars

\* A second VAR_INIT was refused while the existing entry no longer is the
\* Number 0 it was declared as.
C7_Witness ==
    /\ status = "DuplicateDeclaration"
    /\ action.frequency = FREQ_VAR_INIT
    /\ action.arguments[1] \in DOMAIN symbol_table
    /\ symbol_table[action.arguments[1]] # Variable(VariableType_NUMBER, PyInt(0))

\* C8: every entry of the symbol table tagged Number holds a numeric value
\* and every entry tagged String holds a text.
C8_TypeTagInvariant ==
    \A n \in DOMAIN symbol_table :
        /\ symbol_table[n].type = VariableType_NUMBER => IsNumeric(symbol_table[n].value)
        /\ symbol_table[n].type = VariableType_STRING => symbol_table[n].value.rep = "str"

\* C9: CYCLE_TYPE on a String variable whose text does not parse as a number
\* aborts with UnparsableConversion and does not leave the variable tagged
\* Number.
C9_UnparsableConversion ==
    [][(/\ pc = "execute"
        /\ action.frequency = FREQ_CYCLE_TYPE
        /\ Len(action'.arguments) >= 1
        /\ symbol_table[action'.arguments[1]].type = VariableType_STRING
        /\ ~Parseable(symbol_table[action'.arguments[1]].value.text))
       => /\ status' = "UnparsableConversion"
          /\ pc' = "exit"
          /\ symbol_table'[action'.arguments[1]].type # VariableType_NUMBER]_vars

\* C10: once the run has ended nothing changes any more; the step that
\* raises an error leaves the printed lines and the symbol table as the
\* completed actions left them and ends the run with a non-zero status; the
\* run ends with status 0 only when every decoded action has been executed.
C10_ErrorsAreFatal ==
    [][/\ status # "running" => UNCHANGED vars
       /\ (status = "running" /\ status' \notin {"running", "ok"})
          => /\ stdout' = stdout
             /\ symbol_table' = symbol_table
             /\ pc' = "exit"
             /\ ExitStatus(status') # 0
       /\ (status = "running" /\ status' = "ok")
          => /\ i' > Len(frequencies')
             /\ k' = Len(actions')
             /\ pc = "fetch"]_vars

\* A run was aborted after a line was printed; the line and the variable it
\* shows are still there.
C10_Witness ==
    /\ pc = "exit"
    /\ status \notin {"running", "ok"}
    /\ stdout # <<>>
    /\ DOMAIN symbol_table # {}

---------------------------------------------------------------------------
\* C11: the symbol table is empty before the first instruction executes; no
\* step removes a key; the key set changes only in a VAR_INIT step that
\* succeeds, and such a step adds exactly the key named by its first
\* argument, which was not a key before.
C11_SymbolTableGrowth ==
    [][/\ (k = 0 \/ (k = 1 /\ pc = "execute")) => DOMAIN symbol_table = {}
       /\ DOMAIN symbol_table \subseteq DOMAIN symbol_table'
       /\ DOMAIN symbol_table' # DOMAIN symbol_table
            => /\ pc = "execute"
               /\ action.frequency = FREQ_VAR_INIT
               /\ status' = "running"
       /\ (pc = "execute" /\ action.frequency = FREQ_VAR_INIT /\ status' = "running")
            => /\ action'.arguments # <<>>
               /\ action'.arguments[1] = raw_arguments[1]
               /\ action'.arguments[1] \notin DOMAIN symbol_table
               /\ DOMAIN symbol_table' =
                    DOMAIN symbol_table \cup {action'.arguments[1]}]_vars

\* A second VAR_INIT has succeeded: the table holds both declared names.
C11_Witness ==
    /\ pc = "fetch"
    /\ status = "running"
    /\ action.frequency = FREQ_VAR_INIT
    /\ Cardinality(DOMAIN symbol_table) = 2
    /\ action.arguments[1] \in DOMAIN symbol_table

\* The names declared by the VAR_INIT instructions before the n-th one of the
\* decoded stream.
DeclaredBefore(n) ==
    {actions[j].arguments[1] :
        j \in {d \in 1..(n - 1) : /\ actions[d].frequency = FREQ_VAR_INIT
                                  /\ actions[d].arguments # <<>>}}

\* C12: the k-th instruction is resolved against the symbol table as the
\* instructions before it left it: for an opcode that ignores undefined names
\* the accepted operands are the raw tokens declared by a VAR_INIT earlier in
\* the stream (a name declared only by a later VAR_INIT is dropped), cut to
\* the arity; VAR_INIT and IMMEDIATE keep undefined tokens up to their arity,
\* STR_DEF and FUNC_DEF keep every token.
C12_ResolutionSeesEarlierEffects ==
    (pc \in {"fetch", "exit"} /\ k >= 1)
    => LET f == actions[k].frequency
           raw == actions[k].arguments
           Declared(t) == t \in DeclaredBefore(k)
       IN /\ action.frequency = f
          /\ IgnoresUndefined(f)
               => action.arguments = FirstN(SelectSeq(raw, Declared), FREQ_ARGS(f))
          /\ f \in {FREQ_VAR_INIT, FREQ_IMMEDIATE}
               => action.arguments = FirstN(raw, FREQ_ARGS(f))
          /\ f \in {FREQ_STR_DEF, FREQ_FUNC_DEF}
               => action.arguments = raw

\* A PRINT of a name that only a later VAR_INIT declares lost its operand and
\* aborted the run.
C12_Witness ==
    /\ pc = "exit"
    /\ status = "ArityError"
    /\ k = 1
    /\ Len(actions) >= 2
    /\ actions[1].frequency = FREQ_PRINT
    /\ actions[1].arguments # <<>>
    /\ action.arguments = <<>>
    /\ actions[2].frequency = FREQ_VAR_INIT
    /\ actions[2].arguments # <<>>
    /\ actions[2].arguments[1] = actions[1].arguments[1]

\* The index of the first opcode token after position p, one past the end of
\* the stream when there is none.
NextOpcode(freqs, p) ==
    IF \E e \in (p + 1)..Len(freqs) : freqs[e] \in Opcodes
    THEN CHOOSE e \in (p + 1)..Len(freqs) :
            /\ freqs[e] \in Opcodes
            /\ \A d \in (p + 1)..(e - 1) : freqs[d] \notin Opcodes
    ELSE Len(freqs) + 1

\* C13: decoding a non-encasing opcode at position p emits one action whose
\* raw operands are exactly the maximal run of non-opcode tokens after p; the
\* run ends at the next opcode token or at the end of the stream, and that
\* opcode is not consumed: decoding resumes at it.
C13_NonEncasingDecoding ==
    [][(/\ pc = "decode"
        /\ i <= Len(frequencies)
        /\ frequencies[i] \in Opcodes \ {FREQ_STR_DEF, FREQ_FUNC_DEF})
       => LET e == NextOpcode(frequencies, i)
          IN /\ actions' = Append(actions,
                                  [frequency |-> frequencies[i],
                                   arguments |-> SubSeq(frequencies, i + 1, e - 1),
                                   req_arguments |-> FREQ_ARGS(frequencies[i])])
             /\ i' = e]_vars

\* Two adjacent opcode tokens were decoded: the first action has no operands,
\* the second was opened by the token that ended the first and took the two
\* names after it, up to a third opcode.
C13_Witness ==
    /\ pc = "fetch"
    /\ k = 0
    /\ Len(frequencies) = 5
    /\ frequencies[1] \in Opcodes \ {FREQ_STR_DEF, FREQ_FUNC_DEF}
    /\ frequencies[2] \in Opcodes \ {FREQ_STR_DEF, FREQ_FUNC_DEF}
    /\ Len(actions) = 3
    /\ actions[1].arguments = <<>>
    /\ actions[2].frequency = frequencies[2]
    /\ actions[2].arguments = SubSeq(frequencies, 3, 4)
    /\ actions[3].frequency = frequencies[5]

C15_SubMultTyping ==
    [][(/\ pc = "execute"
        /\ action.frequency \in {FREQ_SUB, FREQ_MULT}
        /\ Len(action'.arguments) = 3)
       => LET dst == action'.arguments[1]
              left == symbol_table[action'.arguments[2]]
              right == symbol_table[action'.arguments[3]]
              result == IF action.frequency = FREQ_SUB
                        THEN PySub(left.value, right.value)
                        ELSE PyMul(left.value, right.value)
          IN IF \/ symbol_table[dst].type # VariableType_NUMBER
                \/ left.type # VariableType_NUMBER
                \/ right.type # VariableType_NUMBER
             THEN /\ status' = "TypeMismatch"
                  /\ symbol_table' = symbol_table
             ELSE /\ status' = "running"
                  /\ IsNumeric(symbol_table'[dst].value)
                  /\ symbol_table'[dst].value = result.value]_vars

\* C16: the decoder is total.  Every step of it raises no error and consumes
\* a non-empty block of tokens that starts where the previous block ended, so
\* each token is consumed once, left to right, and the loop ends.  The block
\* is either one non-opcode token that is discarded, no action emitted, or an
\* opcode token followed by the operands of the one action it opens and
\* appends to the actions, followed for an encasing opcode by the closing
\* token of the same value; an encasing opcode with no later token of its
\* value takes all the remaining tokens as operands.  Execution begins only
\* when every token is consumed.
C16_DecoderTotality ==
    [][pc = "decode"
       => /\ status' = "running"
          /\ i \in 1..(Len(frequencies) + 1)
          /\ pc' # "decode" => i = Len(frequencies) + 1 /\ actions' = actions
          /\ pc' = "decode"
               => LET op == frequencies[i]
                      block == SubSeq(frequencies, i, i' - 1)
                      a == actions'[Len(actions')]
                      encasing == op \in {FREQ_STR_DEF, FREQ_FUNC_DEF}
                  IN /\ i < i'
                     /\ i' <= Len(frequencies) + 1
                     /\ IF op \notin Opcodes
                        THEN /\ i' = i + 1
                             /\ actions' = actions
                        ELSE /\ Len(actions') = Len(actions) + 1
                             /\ SubSeq(actions', 1, Len(actions)) = actions
                             /\ a.frequency = op
                             /\ IF encasing /\ HasClose(frequencies, i)
                                THEN block = <<op>> \o a.arguments \o <<op>>
                                ELSE block = <<op>> \o a.arguments
                             /\ (encasing /\ ~HasClose(frequencies, i))
                                  => i' = Len(frequencies) + 1]_vars

\* A stream of five tokens was decoded in which each role occurs: a discarded
\* name, the opener of an encasing action, its operand, its closing token,
\* and the opener of a last action.
C16_Witness ==
    /\ pc = "fetch"
    /\ k = 0
    /\ Len(frequencies) = 5
    /\ frequencies[1] \notin Opcodes
    /\ frequencies[2] \in {FREQ_STR_DEF, FREQ_FUNC_DEF}
    /\ frequencies[3] \notin Opcodes
    /\ frequencies[4] = frequencies[2]
    /\ frequencies[5] \in Opcodes
    /\ Len(actions) = 2
    /\ actions[1].frequency = frequencies[2]
    /\ actions[1].arguments = <<frequencies[3]>>
    /\ actions[2].frequency = frequencies[5]
    /\ actions[2].arguments = <<>>

\* C17: a PRINT, STR_DEF, FUNC_DEF or FUNC_EXEC that succeeds leaves the
\* whole symbol table unchanged; any other instruction that succeeds changes
\* at most the entry named by its first operand: no other key appears or
\* disappears and every other entry keeps its type and its value.
C17_Frame ==
    [][(pc = "execute" /\ status' = "running")
       => IF action.frequency \in {FREQ_PRINT, FREQ_STR_DEF, FREQ_FUNC_DEF,
                                   FREQ_FUNC_EXEC}
          THEN symbol_table' = symbol_table
          ELSE /\ action'.arguments # <<>>
               /\ DOMAIN symbol_table' \ {action'.arguments[1]}
                    = DOMAIN symbol_table \ {action'.arguments[1]}
               /\ \A n \in DOMAIN symbol_table \ {action'.arguments[1]} :
                     symbol_table'[n] = symbol_table[n]]_vars

\* An ADD has stored the sum of a second variable and of its own destination
\* in the destination; the second variable still holds its value.
C17_Witness ==
    /\ pc = "fetch"
    /\ status = "running"
    /\ action.frequency = FREQ_ADD
    /\ Len(action.arguments) = 3
    /\ action.arguments[1] # action.arguments[2]
    /\ symbol_table[action.arguments[1]].value = Float64(10, 1)
    /\ symbol_table[action.arguments[2]].value = Float64(10, 1)
    /\ action.arguments[3] = action.arguments[1]

\* The stored value is the number zero (the int 0 of a fresh variable or the
\* float 0.0).
IsZero(v) == IsNumeric(v) /\ v.num = 0 /\ v.den # 0

\* C18: no division by a zero divisor.  Whenever a DIV completes and writes
\* its destination, the value stored in its right operand is not zero; a DIV
\* on three Number variables whose right operand holds zero aborts the run
\* with DivideByZero and leaves the symbol table, the destination included,
\* as it was.
C18_NoDivisionByZero ==
    [][(/\ pc = "execute"
        /\ action.frequency = FREQ_DIV
        /\ Len(action'.arguments) = 3)
       => LET right == symbol_table[action'.arguments[3]]
          IN /\ status' = "running" => ~IsZero(right.value)
             /\ (AllNumber(action', symbol_table) /\ IsZero(right.value))
                  => /\ status' = "DivideByZero"
                     /\ symbol_table' = symbol_table]_vars

\* C19: the set of errors is closed.  A run is under way, has executed every
\* instruction, or was aborted with one of the six error kinds; no handler
\* fails in another way (an exception of the host language).
C19_ClosedErrorSet ==
    status \in {"running", "ok", "ArityError", "UndefinedVariable",
                "DuplicateDeclaration", "TypeMismatch", "DivideByZero",
                "UnparsableConversion"}

\* C20: reserved values are never variable names.  No key of the symbol table
\* is one of the twelve opcode values, because the raw operands of a decoded
\* VAR_INIT never contain an opcode token.
C20_ReservedValuesNeverNames ==
    /\ DOMAIN symbol_table \cap Opcodes = {}
    /\ \A j \in 1..Len(actions) :
          actions[j].frequency = FREQ_VAR_INIT
          => \A t \in 1..Len(actions[j].arguments) :
                actions[j].arguments[t] \notin Opcodes

\* After a first declaration, a VAR_INIT token followed by an opcode token
\* was decoded as a VAR_INIT without operands and aborted the run with
\* ArityError; the opcode value did not become a key.
C20_Witness ==
    /\ pc = "exit"
    /\ status = "ArityError"
    /\ k = 2
    /\ Len(frequencies) >= 4
    /\ frequencies[1] = FREQ_VAR_INIT
    /\ frequencies[3] = FREQ_VAR_INIT
    /\ frequencies[4] \in Opcodes
    /\ actions[2].frequency = FREQ_VAR_INIT
    /\ actions[2].arguments = <<>>
    /\ DOMAIN symbol_table = {frequencies[2]}

=============================================================================
